---- MODULE Spec2Model ----
(***************************************************************************)
(* Model of swoosh/list.py: list_scripts (the Collector), write_to_md (the *)
(* Reporter) and the __main__ block, run against a small file system that  *)
(* an environment may change between the program's steps.                  *)
(*                                                                         *)
(* Strings are sequences of symbols.  A symbol is a character, except that *)
(* Fence (a run of three backticks), the fixed sentences and the error     *)
(* messages are single symbols; "X" is a byte that is not valid UTF-8.     *)
(***************************************************************************)
EXTENDS Integers, Sequences, FiniteSets, TLC

VARIABLES
    fs,            \* path -> [kind, content]: the tree under the working directory
    outExists,     \* does the output file exist
    outData,       \* the output file's text
    outOpen,       \* md_file is open
    inOpen,        \* f (the input file of the current entry) is open
    pc,            \* position of the program
    walkStack,     \* os.walk: directories still to visit
    script_files,  \* the collected relative paths
    idx,           \* position of the for loop of write_to_md (1-based)
    buf,           \* the value f.read() returned
    exc,           \* the exception the except clause caught
    stdout,        \* lines printed by this run
    runs,          \* number of runs of the program started so far
    envSteps,      \* number of changes the environment made
    log,           \* history: the writes of this run that reached md_file
    reads,         \* history: per entry, what opening and reading it gave
    outFaults,     \* history: number of writes to md_file that raised in this run
    walkFs,        \* history: the tree when list_scripts was called
    walkClean,     \* history: the tree did not change during list_scripts
    prevWalk       \* history: tree and result of the previous list_scripts call

vars == <<fs, outExists, outData, outOpen, inOpen, pc, walkStack, script_files,
          idx, buf, exc, stdout, runs, envSteps, log, reads, outFaults,
          walkFs, walkClean, prevWalk>>

progVars == <<outExists, outData, outOpen, inOpen, pc, walkStack, script_files,
              idx, buf, exc, stdout, log, reads, outFaults>>

----------------------------------------------------------------------------
(* Bounds *)

MaxLen == 2        \* longest file content, in symbols
MaxRuns == 2       \* runs of the program
MaxEnv == 1        \* changes made by the environment

----------------------------------------------------------------------------
(* Configuration and fixed texts *)

src_folder == <<"s", "r", "c">>
output_file == "scripts_with_contents.md"
suffix == <<".", "r", "s">>

Fence == "[3 backticks]"

TitleText == <<"# List of Script Files and Their Contents", "\n", "\n">>
DescText == <<"The following are all the script files in the src folder along with their contents:", "\n", "\n">>
HeadingText(script) == <<"## ">> \o script \o <<"\n", "\n">>
OpenFenceText == <<Fence, "rust", "\n">>
PlaceholderText(e) == <<"Error reading file: ", e>>
CloseFenceText == <<"\n", Fence, "\n", "\n">>

DiagnosticLine == <<"Error: Folder '">> \o src_folder \o <<"' does not exist.">>
ConfirmationLine == <<"Markdown file '", output_file, "' has been generated with the list of scripts and their contents.">>

----------------------------------------------------------------------------
(* Paths *)

Join(a, b) == a \o <<"/">> \o b

Relpath(path, start) == SubSeq(path, Len(start) + 2, Len(path))

EndsWith(s, suf) ==
    /\ Len(s) >= Len(suf)
    /\ SubSeq(s, Len(s) - Len(suf) + 1, Len(s)) = suf

IsPrefix(p, q) == Len(p) <= Len(q) /\ SubSeq(q, 1, Len(p)) = p

(* The names and paths the model's trees are built from. *)
N_m == <<"m", ".", "r", "s">>
N_a == <<"a", ".", "r", "s">>
N_n == <<"n", ".", "R", "S">>
N_b == <<"b">>
N_y == <<"y", ".", "r", "s">>

Names == {N_m, N_a, N_n, N_b, N_y}

P_m == Join(src_folder, N_m)
P_a == Join(src_folder, N_a)
P_n == Join(src_folder, N_n)
P_b == Join(P_a, N_b)
P_y == Join(P_b, N_y)

DirPaths == {src_folder, P_a, P_b}
FilePaths == {P_m, P_n, P_y}
Paths == DirPaths \cup FilePaths

Absent == [kind |-> "none", content |-> <<>>]
Dir == [kind |-> "dir", content |-> <<>>]
File(c) == [kind |-> "file", content |-> c]

ParentOf(p) ==
    CASE p = P_m -> src_folder
      [] p = P_a -> src_folder
      [] p = P_n -> src_folder
      [] p = P_b -> P_a
      [] p = P_y -> P_b
      [] OTHER -> <<>>

(* Content a file of the main specification starts with: a text of its own. *)
OwnText(p) == <<p[Len(p) - 3]>>

Chars == {"a", "\n", "\r", Fence, "X"}
SeqsUpTo(S, n) == UNION {[1..k -> S] : k \in 0..n}
Contents == SeqsUpTo(Chars, MaxLen)

WellFormed(t) ==
    /\ \A p \in DirPaths : t[p].kind \in {"none", "dir"} /\ t[p].content = <<>>
    /\ \A p \in FilePaths : t[p].kind \in {"none", "file"}
    /\ \A p \in Paths \ {src_folder} :
          t[p].kind # "none" => t[ParentOf(p)].kind = "dir"

Perms(S) == {f \in [1..Cardinality(S) -> S] : \A i, j \in DOMAIN f : f[i] = f[j] => i = j}

Range(s) == {s[i] : i \in DOMAIN s}

----------------------------------------------------------------------------
(* The file system as the program sees it *)

Exists(p) == p \in Paths /\ fs[p].kind # "none"

Scandir(t, top) == {n \in Names : Join(top, n) \in Paths /\ t[Join(top, n)].kind # "none"}

(* Universal-newline translation of text-mode reading. *)
RECURSIVE Translate(_)
Translate(s) ==
    IF s = <<>> THEN <<>>
    ELSE IF Head(s) = "\r"
         THEN IF Len(s) >= 2 /\ s[2] = "\n"
              THEN <<"\n">> \o Translate(SubSeq(s, 3, Len(s)))
              ELSE <<"\n">> \o Translate(Tail(s))
         ELSE <<Head(s)>> \o Translate(Tail(s))

Decodable(c) == \A i \in DOMAIN c : c[i] # "X"

----------------------------------------------------------------------------
(* Initial states *)

NoWalk == [valid |-> FALSE, tree |-> [p \in Paths |-> Absent], result |-> {}]

InitProgram ==
    /\ outOpen = FALSE
    /\ inOpen = FALSE
    /\ pc = "start"
    /\ walkStack = <<>>
    /\ script_files = <<>>
    /\ idx = 1
    /\ buf = <<>>
    /\ exc = "none"
    /\ stdout = <<>>
    /\ runs = 1
    /\ envSteps = 0
    /\ log = <<>>
    /\ reads = <<>>
    /\ outFaults = 0
    /\ walkFs = fs
    /\ walkClean = TRUE
    /\ prevWalk = NoWalk
    /\ outExists \in BOOLEAN
    /\ outData = IF outExists THEN <<"earlier text", "\n">> ELSE <<>>

(* Any tree over Paths; every file holds its own text. *)
Init ==
    /\ \E present \in SUBSET Paths :
          fs = [p \in Paths |-> IF p \notin present THEN Absent
                                ELSE IF p \in DirPaths THEN Dir ELSE File(OwnText(p))]
    /\ WellFormed(fs)
    /\ InitProgram

(* A root holding the single file m.rs, with any content up to MaxLen.     *)
InitContent ==
    /\ \E c \in Contents :
          fs = [p \in Paths |-> IF p = src_folder THEN Dir
                                ELSE IF p = P_m THEN File(c) ELSE Absent]
    /\ InitProgram

----------------------------------------------------------------------------
(* Shared by the actions *)

U_fs == <<fs, runs, envSteps, walkFs, walkClean, prevWalk, walkStack,
          script_files, stdout>>

(* md_file.write(text) returning normally. *)
Emit(kind, entry, text) ==
    /\ outData' = outData \o text
    /\ log' = Append(log, [kind |-> kind, entry |-> entry, text |-> text])

script_path == Join(src_folder, script_files[idx])

----------------------------------------------------------------------------
(* __main__ *)

(* Variant: the output file is opened for writing before the root is checked. *)
Main_MissingRoot_Truncating ==
    /\ pc = "start"
    /\ ~Exists(src_folder)
    /\ outExists' = TRUE
    /\ outData' = <<>>
    /\ stdout' = Append(stdout, DiagnosticLine)
    /\ pc' = "done"
    /\ UNCHANGED <<fs, outOpen, inOpen, walkStack, script_files,
                   idx, buf, exc, runs, envSteps, log, reads, outFaults,
                   walkFs, walkClean, prevWalk>>

Main_MissingRoot ==
    /\ pc = "start"
    /\ ~Exists(src_folder)
    /\ stdout' = Append(stdout, DiagnosticLine)
    /\ pc' = "done"
    /\ UNCHANGED <<fs, outExists, outData, outOpen, inOpen, walkStack, script_files,
                   idx, buf, exc, runs, envSteps, log, reads, outFaults,
                   walkFs, walkClean, prevWalk>>

(* The else branch up to the call of list_scripts, and the start of os.walk. *)
Main_CallListScripts ==
    /\ pc = "start"
    /\ Exists(src_folder)
    /\ script_files' = <<>>
    /\ walkStack' = <<src_folder>>
    /\ walkFs' = fs
    /\ walkClean' = TRUE
    /\ pc' = "walk"
    /\ UNCHANGED <<fs, outExists, outData, outOpen, inOpen, idx, buf, exc, stdout,
                   runs, envSteps, log, reads, outFaults, prevWalk>>

PrintConfirmation ==
    /\ pc = "confirm"
    /\ stdout' = Append(stdout, ConfirmationLine)
    /\ pc' = "done"
    /\ UNCHANGED <<fs, outExists, outData, outOpen, inOpen, walkStack, script_files,
                   idx, buf, exc, runs, envSteps, log, reads, outFaults,
                   walkFs, walkClean, prevWalk>>

----------------------------------------------------------------------------
(* list_scripts *)

(* Variant: the suffix is compared without regard to case. *)
MatchingFiles_AnyCase(top, files) ==
    LET sel == SelectSeq(files, LAMBDA file : EndsWith(file, suffix)
                                              \/ EndsWith(file, <<".", "R", "S">>))
    IN  IF sel = <<>> THEN <<>>
        ELSE [i \in 1..Len(sel) |-> Relpath(Join(top, sel[i]), src_folder)]

(* The paths one directory contributes: the inner for loop over files. *)
MatchingFiles(top, files) ==
    LET sel == SelectSeq(files, LAMBDA file : EndsWith(file, suffix))
    IN  IF sel = <<>> THEN <<>>
        ELSE [i \in 1..Len(sel) |-> Relpath(Join(top, sel[i]), src_folder)]

SubDirs(top, dirs) ==
    IF dirs = <<>> THEN <<>> ELSE [i \in 1..Len(dirs) |-> Join(top, dirs[i])]

(* Variant: the walk leaves a marker file behind, creating the output file. *)
WalkStep_Touching ==
    /\ pc = "walk"
    /\ walkStack # <<>>
    /\ LET top == Head(walkStack)
           names == Scandir(fs, top)
           nondirs == {n \in names : fs[Join(top, n)].kind = "file"}
           dirs == {n \in names : fs[Join(top, n)].kind = "dir"}
       IN  \E files \in Perms(nondirs), ds \in Perms(dirs) :
             /\ script_files' = script_files \o MatchingFiles(top, files)
             /\ walkStack' = SubDirs(top, ds) \o Tail(walkStack)
    /\ pc' = IF walkStack' = <<>> THEN "open_out" ELSE "walk"
    /\ outExists' = TRUE
    /\ UNCHANGED <<fs, outData, outOpen, inOpen, idx, buf, exc, stdout,
                   runs, envSteps, log, reads, outFaults, walkFs, walkClean,
                   prevWalk>>

(* One iteration of the loop over os.walk: the next directory is scanned,  *)
(* in whatever order the platform lists it, its subdirectories are queued  *)
(* to be visited next, and its matching files are appended.  When no       *)
(* directory is left list_scripts returns.                                 *)
WalkStep ==
    /\ pc = "walk"
    /\ walkStack # <<>>
    /\ LET top == Head(walkStack)
           names == Scandir(fs, top)
           nondirs == {n \in names : fs[Join(top, n)].kind = "file"}
           dirs == {n \in names : fs[Join(top, n)].kind = "dir"}
       IN  \E files \in Perms(nondirs), ds \in Perms(dirs) :
             /\ script_files' = script_files \o MatchingFiles(top, files)
             /\ walkStack' = SubDirs(top, ds) \o Tail(walkStack)
    /\ pc' = IF walkStack' = <<>> THEN "open_out" ELSE "walk"
    /\ UNCHANGED <<fs, outExists, outData, outOpen, inOpen, idx, buf, exc, stdout,
                   runs, envSteps, log, reads, outFaults, walkFs, walkClean,
                   prevWalk>>

----------------------------------------------------------------------------
(* write_to_md *)

(* Variant: the output file is opened in append mode. *)
OpenOutput_Append ==
    /\ pc = "open_out"
    /\ outExists' = TRUE
    /\ outOpen' = TRUE
    /\ idx' = 1
    /\ pc' = "title"
    /\ UNCHANGED <<outData, inOpen, buf, exc, log, reads, outFaults>>
    /\ UNCHANGED U_fs

(* open(output_file, "w"): creates the file or truncates it. *)
OpenOutput ==
    /\ pc = "open_out"
    /\ outExists' = TRUE
    /\ outData' = <<>>
    /\ outOpen' = TRUE
    /\ idx' = 1
    /\ pc' = "title"
    /\ UNCHANGED <<inOpen, buf, exc, log, reads, outFaults>>
    /\ UNCHANGED U_fs

(* open(output_file, "w") raising: nothing is opened, the exception leaves *)
(* write_to_md and the program.                                            *)
OpenOutputFault ==
    /\ pc = "open_out"
    /\ outFaults' = outFaults + 1
    /\ pc' = "aborted"
    /\ UNCHANGED <<outExists, outData, outOpen, inOpen, idx, buf, exc, log, reads>>
    /\ UNCHANGED U_fs

WriteTitle ==
    /\ pc = "title"
    /\ Emit("title", 0, TitleText)
    /\ pc' = "desc"
    /\ UNCHANGED <<outExists, outOpen, inOpen, idx, buf, exc, reads, outFaults>>
    /\ UNCHANGED U_fs

WriteDesc ==
    /\ pc = "desc"
    /\ Emit("desc", 0, DescText)
    /\ pc' = IF idx > Len(script_files) THEN "close_out" ELSE "heading"
    /\ UNCHANGED <<outExists, outOpen, inOpen, idx, buf, exc, reads, outFaults>>
    /\ UNCHANGED U_fs

WriteHeading ==
    /\ pc = "heading"
    /\ Emit("heading", idx, HeadingText(script_files[idx]))
    /\ pc' = "fence"
    /\ UNCHANGED <<outExists, outOpen, inOpen, idx, buf, exc, reads, outFaults>>
    /\ UNCHANGED U_fs

WriteOpenFence ==
    /\ pc = "fence"
    /\ Emit("open", idx, OpenFenceText)
    /\ pc' = "open_in"
    /\ UNCHANGED <<outExists, outOpen, inOpen, idx, buf, exc, reads, outFaults>>
    /\ UNCHANGED U_fs

(* Variant: no try block around the open, its error leaves write_to_md. *)
OpenInput_Unhandled ==
    /\ pc = "open_in"
    /\ IF Exists(script_path) /\ fs[script_path].kind = "file"
       THEN /\ inOpen' = TRUE
            /\ pc' = "read"
            /\ UNCHANGED <<exc, reads, outOpen>>
       ELSE /\ exc' = "No such file or directory"
            /\ reads' = Append(reads, [res |-> "open failed", raw |-> <<>>])
            /\ outOpen' = FALSE
            /\ pc' = "aborted"
            /\ UNCHANGED inOpen
    /\ UNCHANGED <<outExists, outData, idx, buf, log, outFaults>>
    /\ UNCHANGED U_fs

(* open(script_path, "r") *)
OpenInput ==
    /\ pc = "open_in"
    /\ IF Exists(script_path) /\ fs[script_path].kind = "file"
       THEN /\ inOpen' = TRUE
            /\ pc' = "read"
            /\ UNCHANGED <<exc, reads>>
       ELSE /\ exc' = "No such file or directory"
            /\ reads' = Append(reads, [res |-> "open failed", raw |-> <<>>])
            /\ pc' = "placeholder"
            /\ UNCHANGED inOpen
    /\ UNCHANGED <<outExists, outData, outOpen, idx, buf, log, outFaults>>
    /\ UNCHANGED U_fs

(* Variant: the file is copied piece by piece, so what was decoded before  *)
(* the error is already in the document when the error is caught.          *)
DecodablePrefix(c) ==
    SubSeq(c, 1, CHOOSE n \in 0..Len(c) :
                    /\ \A i \in 1..n : c[i] # "X"
                    /\ (n < Len(c) => c[n + 1] = "X"))

ReadInput_Streaming ==
    /\ pc = "read"
    /\ LET c == fs[script_path].content
       IN  IF Decodable(c)
           THEN /\ buf' = Translate(c)
                /\ reads' = Append(reads, [res |-> "ok", raw |-> c])
                /\ pc' = "content"
                /\ UNCHANGED <<exc, inOpen, outData, log>>
           ELSE /\ exc' = "codec can't decode"
                /\ reads' = Append(reads, [res |-> "read failed", raw |-> c])
                /\ Emit("body", idx, DecodablePrefix(c))
                /\ inOpen' = FALSE
                /\ pc' = "placeholder"
                /\ UNCHANGED buf
    /\ UNCHANGED <<outExists, outOpen, idx, outFaults>>
    /\ UNCHANGED U_fs

(* f.read(): the whole file is decoded before anything is written.  A      *)
(* decoding error leaves the with block of f, which closes f.              *)
ReadInput ==
    /\ pc = "read"
    /\ LET c == fs[script_path].content
       IN  IF Decodable(c)
           THEN /\ buf' = Translate(c)
                /\ reads' = Append(reads, [res |-> "ok", raw |-> c])
                /\ pc' = "content"
                /\ UNCHANGED <<exc, inOpen>>
           ELSE /\ exc' = "codec can't decode"
                /\ reads' = Append(reads, [res |-> "read failed", raw |-> c])
                /\ inOpen' = FALSE
                /\ pc' = "placeholder"
                /\ UNCHANGED buf
    /\ UNCHANGED <<outExists, outData, outOpen, idx, log, outFaults>>
    /\ UNCHANGED U_fs

(* Variant: the content is written without its final line break. *)
WriteContent_Stripped ==
    /\ pc = "content"
    /\ Emit("body", idx, IF buf # <<>> /\ buf[Len(buf)] = "\n"
                         THEN SubSeq(buf, 1, Len(buf) - 1) ELSE buf)
    /\ inOpen' = FALSE
    /\ pc' = "close_fence"
    /\ UNCHANGED <<outExists, outOpen, idx, buf, exc, reads, outFaults>>
    /\ UNCHANGED U_fs

(* md_file.write(f.read()) returning normally, then the end of f's with block. *)
WriteContent ==
    /\ pc = "content"
    /\ Emit("body", idx, buf)
    /\ inOpen' = FALSE
    /\ pc' = "close_fence"
    /\ UNCHANGED <<outExists, outOpen, idx, buf, exc, reads, outFaults>>
    /\ UNCHANGED U_fs

(* md_file.write(f.read()) raising: the call is inside the try block, so   *)
(* except Exception catches the error of the output file as well.  A write *)
(* that raises is taken to add nothing to the file.                        *)
WriteContentFault ==
    /\ pc = "content"
    /\ outFaults' = outFaults + 1
    /\ exc' = "No space left on device"
    /\ inOpen' = FALSE
    /\ pc' = "placeholder"
    /\ UNCHANGED <<outExists, outData, outOpen, idx, buf, log, reads>>
    /\ UNCHANGED U_fs

(* Variant: the except clause goes on to the next path, skipping the       *)
(* closing fence.                                                          *)
WritePlaceholder_Continue ==
    /\ pc = "placeholder"
    /\ Emit("placeholder", idx, PlaceholderText(exc))
    /\ idx' = idx + 1
    /\ pc' = IF idx' > Len(script_files) THEN "close_out" ELSE "heading"
    /\ UNCHANGED <<outExists, outOpen, inOpen, buf, exc, reads, outFaults>>
    /\ UNCHANGED U_fs

WritePlaceholder ==
    /\ pc = "placeholder"
    /\ Emit("placeholder", idx, PlaceholderText(exc))
    /\ pc' = "close_fence"
    /\ UNCHANGED <<outExists, outOpen, inOpen, idx, buf, exc, reads, outFaults>>
    /\ UNCHANGED U_fs

WriteCloseFence ==
    /\ pc = "close_fence"
    /\ Emit("close", idx, CloseFenceText)
    /\ idx' = idx + 1
    /\ pc' = IF idx' > Len(script_files) THEN "close_out" ELSE "heading"
    /\ UNCHANGED <<outExists, outOpen, inOpen, buf, exc, reads, outFaults>>
    /\ UNCHANGED U_fs

(* Variant: md_file is opened without a with block, an exception leaves it *)
(* open.                                                                   *)
WriteFault_Leak ==
    /\ pc \in {"title", "desc", "heading", "fence", "placeholder", "close_fence"}
    /\ outFaults' = outFaults + 1
    /\ pc' = "aborted"
    /\ UNCHANGED <<outExists, outData, outOpen, inOpen, idx, buf, exc, log, reads>>
    /\ UNCHANGED U_fs

(* A md_file.write outside the try block raising: the exception leaves the *)
(* with block of md_file, which closes it, and ends the program.           *)
WriteFault ==
    /\ pc \in {"title", "desc", "heading", "fence", "placeholder", "close_fence"}
    /\ outFaults' = outFaults + 1
    /\ outOpen' = FALSE
    /\ pc' = "aborted"
    /\ UNCHANGED <<outExists, outData, inOpen, idx, buf, exc, log, reads>>
    /\ UNCHANGED U_fs

(* The end of md_file's with block. *)
CloseOutput ==
    /\ pc = "close_out"
    /\ outOpen' = FALSE
    /\ pc' = "confirm"
    /\ UNCHANGED <<outExists, outData, inOpen, idx, buf, exc, log, reads, outFaults>>
    /\ UNCHANGED U_fs

(* The flush of close() raising: the handle is closed all the same. *)
CloseOutputFault ==
    /\ pc = "close_out"
    /\ outFaults' = outFaults + 1
    /\ outOpen' = FALSE
    /\ pc' = "aborted"
    /\ UNCHANGED <<outExists, outData, inOpen, idx, buf, exc, log, reads>>
    /\ UNCHANGED U_fs

----------------------------------------------------------------------------
(* Further runs, and the environment *)

(* The program is started again. *)
Restart ==
    /\ pc \in {"done", "aborted"}
    /\ runs < MaxRuns
    /\ runs' = runs + 1
    /\ prevWalk' = IF pc = "done" /\ stdout = <<ConfirmationLine>> /\ walkClean
                   THEN [valid |-> TRUE, tree |-> walkFs, result |-> Range(script_files)]
                   ELSE prevWalk
    /\ pc' = "start"
    /\ walkStack' = <<>>
    /\ script_files' = <<>>
    /\ idx' = 1
    /\ buf' = <<>>
    /\ exc' = "none"
    /\ stdout' = <<>>
    /\ log' = <<>>
    /\ reads' = <<>>
    /\ outFaults' = 0
    /\ walkFs' = fs
    /\ walkClean' = TRUE
    /\ UNCHANGED <<fs, outExists, outData, outOpen, inOpen, envSteps>>

(* The program looks at the tree only in these positions: a change made   *)
(* at another time is seen as one made just before the next of them.       *)
Observing == pc \in {"start", "walk", "open_in", "read"}

(* Another process removes a file, or a directory with all it holds.  The  *)
(* file the program holds open stays readable, so its removal is left out. *)
EnvDelete(p) ==
    /\ envSteps < MaxEnv
    /\ Observing
    /\ Exists(p)
    /\ ~(inOpen /\ IsPrefix(p, script_path))
    /\ fs' = [q \in Paths |-> IF IsPrefix(p, q) THEN Absent ELSE fs[q]]
    /\ envSteps' = envSteps + 1
    /\ walkClean' = (walkClean /\ pc # "walk")
    /\ UNCHANGED progVars
    /\ UNCHANGED <<runs, walkFs, prevWalk>>

(* Another process rewrites a file. *)
EnvModify(p, c) ==
    /\ envSteps < MaxEnv
    /\ Observing
    /\ p \in FilePaths
    /\ Exists(p)
    /\ fs[p].content # c
    /\ fs' = [fs EXCEPT ![p] = File(c)]
    /\ envSteps' = envSteps + 1
    /\ walkClean' = (walkClean /\ pc # "walk")
    /\ UNCHANGED progVars
    /\ UNCHANGED <<runs, walkFs, prevWalk>>

EnvContents == {<<"z">>, <<"X">>}

Next ==
    \/ Main_MissingRoot
    \/ Main_CallListScripts
    \/ WalkStep
    \/ OpenOutput
    \/ OpenOutputFault
    \/ WriteTitle
    \/ WriteDesc
    \/ WriteHeading
    \/ WriteOpenFence
    \/ OpenInput
    \/ ReadInput
    \/ WriteContent
    \/ WriteContentFault
    \/ WritePlaceholder
    \/ WriteCloseFence
    \/ WriteFault
    \/ CloseOutput
    \/ CloseOutputFault
    \/ PrintConfirmation
    \/ Restart
    \/ \E p \in Paths : EnvDelete(p)
    \/ \E p \in FilePaths, c \in EnvContents : EnvModify(p, c)

Spec == Init /\ [][Next]_vars

SpecContent == InitContent /\ [][Next]_vars

----------------------------------------------------------------------------
(* Vocabulary of the properties *)

RECURSIVE Flat(_)
Flat(l) == IF l = <<>> THEN <<>> ELSE Head(l).text \o Flat(Tail(l))

(* list_scripts was called in this run and has returned. *)
Collected == pc \notin {"start", "walk"} /\ stdout # <<DiagnosticLine>>

(* write_to_md has returned normally in this run. *)
ReporterDone == pc = "confirm" \/ (pc = "done" /\ stdout = <<ConfirmationLine>>)

HasRsSuffix(name) ==
    /\ Len(name) >= 3
    /\ name[Len(name) - 2] = "."
    /\ name[Len(name) - 1] = "r"
    /\ name[Len(name)] = "s"

(* The name of every path of the model, and its path relative to the root, *)
(* written out.                                                            *)
NameOf(p) ==
    CASE p = P_m -> <<"m", ".", "r", "s">>
      [] p = P_a -> <<"a", ".", "r", "s">>
      [] p = P_n -> <<"n", ".", "R", "S">>
      [] p = P_b -> <<"b">>
      [] p = P_y -> <<"y", ".", "r", "s">>
      [] OTHER -> <<>>

RelOf(p) ==
    CASE p = P_m -> <<"m", ".", "r", "s">>
      [] p = P_a -> <<"a", ".", "r", "s">>
      [] p = P_n -> <<"n", ".", "R", "S">>
      [] p = P_b -> <<"a", ".", "r", "s", "/", "b">>
      [] p = P_y -> <<"a", ".", "r", "s", "/", "b", "/", "y", ".", "r", "s">>
      [] OTHER -> <<>>

ExpectedScripts(tree) ==
    {RelOf(p) : p \in {q \in Paths : tree[q].kind = "file" /\ HasRsSuffix(NameOf(q))}}

(* The writes of entry i that went between its fences. *)
Bodies(i) == SelectSeq(log, LAMBDA e : e.entry = i /\ e.kind \in {"body", "placeholder"})

EntryClosed(i) == \E j \in DOMAIN log : log[j].entry = i /\ log[j].kind = "close"

IsPlaceholder(text) == Len(text) = 2 /\ text[1] = "Error reading file: "

----------------------------------------------------------------------------
(* C1: when list_scripts has returned, on a tree that did not change while *)
(* it ran, its result holds exactly the root-relative paths of the files,  *)
(* at any depth, whose name ends with ".rs" (case-sensitive), each once;   *)
(* no other file and no directory appears.                                 *)
C1_ExactlyMatchingFiles ==
    (Collected /\ walkClean) =>
        /\ Range(script_files) = ExpectedScripts(walkFs)
        /\ Len(script_files) = Cardinality(Range(script_files))

C1_Witness ==
    /\ Collected /\ walkClean
    /\ Len(script_files) = 2
    /\ walkFs[P_n].kind = "file"
    /\ RelOf(P_y) \in Range(script_files)

(* C9: the steps of list_scripts change neither the tree, nor any file's   *)
(* content, nor the output file, and open no file; and a second call on a  *)
(* tree equal to the one of the previous call returns the same set.        *)
ListScriptsStep ==
    \/ pc = "start" /\ pc' = "walk"
    \/ pc = "walk" /\ walkStack' # walkStack

C9_NoSideEffects ==
    /\ [][ListScriptsStep =>
            UNCHANGED <<fs, outExists, outData, outOpen, inOpen, log, reads, stdout>>]_vars
    /\ [](  (Collected /\ walkClean /\ prevWalk.valid /\ prevWalk.tree = walkFs)
            => Range(script_files) = prevWalk.result)

C9_Witness ==
    /\ Collected /\ walkClean
    /\ prevWalk.valid /\ prevWalk.tree = walkFs
    /\ Len(script_files) >= 2
    /\ outExists /\ outData # <<>>

(* C3: a run that finds the root missing ends at once: it prints the       *)
(* diagnostic, does not traverse, does not write, and leaves the output    *)
(* file as it was (absent, or with its earlier content).                   *)
C3_MissingRoot ==
    /\ [][(pc = "start" /\ pc' # "start" /\ ~Exists(src_folder)) =>
            /\ pc' = "done"
            /\ stdout' = <<DiagnosticLine>>
            /\ UNCHANGED <<outExists, outData, outOpen, fs>>]_vars
    /\ []((pc = "done" /\ stdout = <<DiagnosticLine>>) =>
            /\ log = <<>> /\ reads = <<>> /\ script_files = <<>> /\ walkStack = <<>>
            /\ ~outOpen /\ ~inOpen)

C3_Witness ==
    /\ pc = "done" /\ stdout = <<DiagnosticLine>>
    /\ runs = 2
    /\ outExists /\ Len(outData) > 2

(* C4: from the moment a run has opened the output file, the file holds    *)
(* exactly what this run wrote: nothing of an earlier run or of earlier    *)
(* content is kept.                                                        *)
C4_Overwrite ==
    (pc \in {"title", "desc", "heading", "fence", "open_in", "read", "content",
             "placeholder", "close_fence", "close_out"} \/ ReporterDone)
        => (outExists /\ outData = Flat(log))

C4_Witness ==
    /\ ReporterDone
    /\ runs = 2
    /\ prevWalk.valid
    /\ prevWalk.result # Range(script_files)
    /\ script_files # <<>>

(* C6: when write_to_md has returned, it wrote the title, the description, *)
(* then for each collected path, in the list's order, a level-2 heading    *)
(* with the path, the opening fence with the label rust, one body and the  *)
(* closing fence; headings, opening and closing fences each number as many *)
(* as the list has elements.                                               *)
Count(kind) == Len(SelectSeq(log, LAMBDA e : e.kind = kind))

C6_Structure ==
    ReporterDone =>
        /\ Len(log) = 2 + 4 * Len(script_files)
        /\ log[1] = [kind |-> "title", entry |-> 0,
                     text |-> <<"# List of Script Files and Their Contents", "\n", "\n">>]
        /\ log[2].kind = "desc" /\ log[2].text[2] = "\n" /\ log[2].text[3] = "\n"
        /\ \A i \in 1..Len(script_files) :
              LET b == 2 + 4 * (i - 1)
              IN  /\ log[b + 1] = [kind |-> "heading", entry |-> i,
                                   text |-> <<"## ">> \o script_files[i] \o <<"\n", "\n">>]
                  /\ log[b + 2] = [kind |-> "open", entry |-> i, text |-> <<Fence, "rust", "\n">>]
                  /\ log[b + 3].kind \in {"body", "placeholder"} /\ log[b + 3].entry = i
                  /\ log[b + 4] = [kind |-> "close", entry |-> i,
                                   text |-> <<"\n", Fence, "\n", "\n">>]
        /\ Count("title") = 1 /\ Count("desc") = 1
        /\ Count("heading") = Len(script_files)
        /\ Count("open") = Len(script_files)
        /\ Count("close") = Len(script_files)
        /\ outData = Flat(log)

C6_Witness ==
    /\ ReporterDone
    /\ Len(script_files) = 2
    /\ Count("placeholder") >= 1 /\ Count("body") >= 1

(* C7: md_file is open only inside write_to_md and is closed whenever     *)
(* write_to_md has been left, by return or by an exception; an input file  *)
(* is open only between its open and the end of its with block, so never   *)
(* when the next entry begins.                                             *)
C7_HandlesReleased ==
    /\ outOpen => pc \in {"title", "desc", "heading", "fence", "open_in", "read",
                          "content", "placeholder", "close_fence", "close_out"}
    /\ inOpen => (outOpen /\ pc \in {"read", "content"})
    /\ pc \in {"confirm", "done", "aborted"} => (~outOpen /\ ~inOpen)

C7_Witness ==
    /\ pc = "aborted"
    /\ ~outOpen /\ ~inOpen
    /\ Len(reads) >= 2
    /\ \E i \in DOMAIN reads : reads[i].res = "ok"
    /\ \E i \in DOMAIN reads : reads[i].res # "ok"

(* C8 (as claimed): a run that ends normally has printed exactly one line, *)
(* the diagnostic or the confirmation; nothing is printed before the end;  *)
(* the confirmation comes only after list_scripts has run and the document *)
(* is complete and closed; and once opening, writing or closing the output *)
(* file has raised, the run is aborted and prints no confirmation.         *)
C8_OneLineAndFaultsPropagate ==
    /\ pc = "done" => (stdout = <<DiagnosticLine>> \/ stdout = <<ConfirmationLine>>)
    /\ pc # "done" => stdout = <<>>
    /\ stdout = <<ConfirmationLine>> =>
          /\ Collected /\ ~outOpen
          /\ Len(log) = 2 + 4 * Len(script_files)
    /\ outFaults > 0 => (pc = "aborted" /\ stdout = <<>>)

OwnOrRewritten(script, text) ==
    text = <<"z">> \/ text = <<script[Len(script) - 3]>>

C2_FailureIsolation ==
    /\ pc = "aborted" => outFaults > 0
    /\ (ReporterDone /\ outFaults = 0) =>
          /\ Len(reads) = Len(script_files)
          /\ \A i \in 1..Len(script_files) :
                /\ EntryClosed(i)
                /\ Len(Bodies(i)) = 1
                /\ IF reads[i].res = "ok"
                   THEN /\ Bodies(i)[1].kind = "body"
                        /\ Bodies(i)[1].text = reads[i].raw
                        /\ OwnOrRewritten(script_files[i], Bodies(i)[1].text)
                   ELSE /\ Bodies(i)[1].kind = "placeholder"
                        /\ IsPlaceholder(Bodies(i)[1].text)

C2_Witness ==
    /\ ReporterDone /\ outFaults = 0
    /\ Len(script_files) = 2
    /\ reads[1].res = "open failed"
    /\ reads[2].res = "ok"

----------------------------------------------------------------------------
(* Extraction of the body of an entry's fenced block from the document *)

(* Index in log of the opening fence of entry i. *)
OpenIndex(i) == CHOOSE j \in DOMAIN log : log[j].entry = i /\ log[j].kind = "open"

(* The document after the opening fence line of entry i. *)
AfterOpen(i) ==
    SubSeq(outData, Len(Flat(SubSeq(log, 1, OpenIndex(i)))) + 1, Len(outData))

LineStartsAt(t, p) == p = 1 \/ t[p - 1] = "\n"

FenceLineAt(t, p) == p \in DOMAIN t /\ LineStartsAt(t, p) /\ t[p] = Fence

(* The text up to the next line that begins with a fence, without the line *)
(* break that ends its last line.                                          *)
ExtractBody(t) ==
    IF \E p \in DOMAIN t : FenceLineAt(t, p)
    THEN LET p == CHOOSE q \in DOMAIN t :
                    FenceLineAt(t, q) /\ \A r \in 1..(q - 1) : ~FenceLineAt(t, r)
         IN  IF p = 1 THEN <<>> ELSE SubSeq(t, 1, p - 2)
    ELSE t

NoFenceLineNoCR(c) ==
    /\ \A p \in DOMAIN c : c[p] # "\r"
    /\ \A p \in DOMAIN c : ~FenceLineAt(c, p)

(* C5 (as claimed): when write_to_md has returned and no write raised, the *)
(* body extracted from the block of every file that was read equals the    *)
(* file's content, whatever the content.                                   *)
C5_RoundTripAnyContent ==
    (ReporterDone /\ outFaults = 0) =>
        \A i \in 1..Len(reads) :
            reads[i].res = "ok" => ExtractBody(AfterOpen(i)) = reads[i].raw

(* C5 (amended): the same for every content that holds no carriage return  *)
(* and no line beginning with a fence; this covers the empty content and   *)
(* content that ends with or without a line break.                         *)
C5_RoundTripPlainContent ==
    (ReporterDone /\ outFaults = 0) =>
        \A i \in 1..Len(reads) :
            (reads[i].res = "ok" /\ NoFenceLineNoCR(reads[i].raw))
                => ExtractBody(AfterOpen(i)) = reads[i].raw

C5_Witness ==
    /\ ReporterDone /\ outFaults = 0
    /\ Len(reads) = 1 /\ reads[1].res = "ok"
    /\ reads[1].raw = <<"a", "\n">>
    /\ ExtractBody(AfterOpen(1)) = <<"a", "\n">>

====
